---- MODULE Spec2Model ----
(***************************************************************************)
(* dtolnay/essay: four essay files, each one doc comment attached to an    *)
(* exported macro_rules! definition, aggregated by lib.rs.                 *)
(*                                                                         *)
(* The specifications:                                                     *)
(*   SpecBuild  the crate as the toolchain processes it: lib.rs item by    *)
(*              item, each essay file loaded through its path attribute,   *)
(*              then the doc examples compiled and run as doctests;        *)
(*   SpecMacro  a dependent crate invoking one of the exported macros;     *)
(*   SpecFrob   a caller of the frob bindings of the soundness essay;      *)
(*   SpecPoll   a caller of poll_next, the state machine of the await essay;*)
(*   SpecSetup  the service set-up of the await essay, before and after    *)
(*              introducing await;                                         *)
(*   SpecHandler handle_get_counters of the await essay, with combinators  *)
(*              and as an async fn.                                        *)
(***************************************************************************)
EXTENDS Integers, Sequences, FiniteSets, TLC

VARIABLES
  cursor,     \* SpecBuild: index of the next lib.rs item to process
  modules,    \* SpecBuild: modules loaded so far, in order: [name, path, essay]
  exported,   \* SpecBuild: names of the macros exported at the crate root
  declared,   \* SpecBuild: items declared so far: [scope, kind, name]
  expanded,   \* SpecBuild: macro invocations expanded so far: [scope, name]
  queue,      \* SpecBuild: doctests collected and not yet started, in order
  running,    \* SpecBuild: doctests in flight: test |-> "compiling" | "built"
  finished,   \* SpecBuild: doctests that ended: test |-> "ok" | "failed"
  executed,   \* SpecBuild: run-time calls performed: [scope, call]
  dpc,        \* SpecMacro: "source" | "expanded" | "rejected" | "built" | "ran"
  dmacro,     \* SpecMacro: essay whose macro the dependent crate invokes
  dinput,     \* SpecMacro: the invocation's argument, a token stream
  dedits,     \* SpecMacro: edits made to the invocation so far
  expansion,  \* SpecMacro: tokens the invocation expanded to; NoExpansion before
  ditems,     \* SpecMacro: items the dependent crate defines
  diag,       \* SpecMacro: build diagnostics emitted
  druntime,   \* SpecMacro: what the dependent crate's binary did at run time
  fpc,        \* SpecFrob: "idle" | "panicked"
  fcalls,     \* SpecFrob: calls of a binding made so far: [binding, arg]
  ffiLog,     \* SpecFrob: arguments ffi::frob was called with: [binding, arg]
  memory,     \* SpecFrob: "intact" | "stomped" (the C contract of frob)
  estate,     \* SpecPoll: the EncodeState the caller holds: [tag, val]
  polls,      \* SpecPoll: calls of poll_next so far: [from, calls, result, to]
  oracle,     \* SpecSetup: outcome of each call, the same for both versions; Unset before
  bpc,        \* SpecSetup: combinator version: call about to be made | "pending" | "done" | "panicked"
  bcalls,     \* SpecSetup: combinator version: calls made so far
  add_modules,\* SpecSetup: combinator version: the Result of the add_module chain
  bresult,    \* SpecSetup: combinator version: what the future resolved to
  apc,        \* SpecSetup: await version: call about to be made | "done" | "panicked"
  acalls,     \* SpecSetup: await version: calls made so far
  aresult,    \* SpecSetup: await version: what try_main resolved to
  stages,     \* SpecHandler: outcome of each stage, the same for both versions; Unset before
  cpc,        \* SpecHandler: combinator version: stage about to run | "pending" | "done" | "panicked"
  cran,       \* SpecHandler: combinator version: stages run so far: [stage, protocol]
  ret,        \* SpecHandler: combinator version: the Result the closure returned
  cpolls,     \* SpecHandler: combinator version: polls that found get_counters not ready
  cresult,    \* SpecHandler: combinator version: what the returned future resolved to
  wpc,        \* SpecHandler: await version: stage about to run | "awaiting" | "done" | "panicked"
  wran,       \* SpecHandler: await version: stages run so far: [stage, protocol]
  wpolls,     \* SpecHandler: await version: polls that found get_counters not ready
  wresult     \* SpecHandler: await version: what the async fn resolved to

buildVars == <<cursor, modules, exported, declared, expanded, queue, running,
               finished, executed>>
macroVars == <<dpc, dmacro, dinput, dedits, expansion, ditems, diag, druntime>>
frobVars  == <<fpc, fcalls, ffiLog, memory>>
pollVars == <<estate, polls>>
setupVars == <<oracle, bpc, bcalls, add_modules, bresult, apc, acalls, aresult>>
handlerVars == <<stages, cpc, cran, ret, cpolls, cresult, wpc, wran, wpolls, wresult>>
vars == <<buildVars, macroVars, frobVars, pollVars, setupVars, handlerVars>>

(***************************************************************************)
(* Tokens.  A token tree is a record of one shape: a leaf (identifier,     *)
(* punctuation or string literal) carries its text, a delimited group its  *)
(* delimiter and its inner token trees.                                    *)
(***************************************************************************)
Id(s)  == [kind |-> "ident", text |-> s, delim |-> "none", inner |-> <<>>]
P(s)   == [kind |-> "punct", text |-> s, delim |-> "none", inner |-> <<>>]
Lit(s) == [kind |-> "str",   text |-> s, delim |-> "none", inner |-> <<>>]
Group(d, ts) == [kind |-> "group", text |-> "", delim |-> d, inner |-> ts]

\* The matcher every essay's macro uses: ({ date: "...", author: "...", })
RecordMatcher(date, author) ==
  << Group("brace", << Id("date"), P(":"), Lit(date), P(","),
                       Id("author"), P(":"), Lit(author), P(",") >>) >>

(***************************************************************************)
(* The repository.  A fenced block of an essay's doc comment is recorded   *)
(* with its lines, its language string, the items it declares, the macros  *)
(* it invokes and the calls its top-level statements make when it runs.    *)
(***************************************************************************)
Block(first, last, lang, items, macros, main) ==
  [first |-> first, last |-> last, lang |-> lang, items |-> items,
   macros |-> macros, main |-> main]

MacroRules(name, rules) ==
  [kind |-> "macro_rules", name |-> name, export |-> TRUE, rules |-> rules,
   input |-> <<>>]

Rule(matcher, transcriber) == [matcher |-> matcher, transcriber |-> transcriber]

Blocks_01 ==
  << Block(48, 133, "",
       {<<"struct", "Error">>, <<"struct", "Res">>,
        <<"type", "ProtocolEncodedFinal">>, <<"trait", "Protocol">>,
        <<"trait", "Deserializer">>, <<"enum", "MessageType">>,
        <<"fn", "write">>, <<"fn", "write_message">>, <<"struct", "Example">>,
        <<"struct", "Service">>, <<"fn", "get_counters">>,
        <<"fn", "handle_get_counters">>},
       {"unimplemented"}, <<>>),
     Block(148, 215, "",
       {<<"struct", "Error">>, <<"struct", "Res">>,
        <<"type", "ProtocolEncodedFinal">>, <<"trait", "Protocol">>,
        <<"trait", "Deserializer">>, <<"enum", "MessageType">>,
        <<"fn", "write">>, <<"fn", "write_message">>, <<"struct", "Example">>,
        <<"struct", "Service">>, <<"fn", "get_counters">>,
        <<"fn", "handle_get_counters">>},
       {"unimplemented"}, <<>>),
     Block(228, 260, "",
       {<<"struct", "ServiceFramework">>, <<"struct", "BuildModule">>,
        <<"struct", "ThriftStatsModule">>, <<"struct", "ProfileModule">>,
        <<"fn", "new">>, <<"fn", "add_module">>, <<"fn", "serve">>},
       {},
       <<"ServiceFramework::new", "unwrap", "add_module", "add_module",
         "add_module", "future::result", "and_then">>),
     Block(262, 293, "",
       {<<"struct", "ServiceFramework">>, <<"struct", "BuildModule">>,
        <<"struct", "ThriftStatsModule">>, <<"struct", "ProfileModule">>,
        <<"fn", "new">>, <<"fn", "add_module">>, <<"fn", "serve">>,
        <<"fn", "try_main">>},
       {"unimplemented"}, <<>>),
     Block(320, 335, "",
       {<<"fn", "keep_going">>, <<"fn", "do_the_thing">>, <<"fn", "try_main">>},
       {"unimplemented"}, <<>>),
     Block(348, 425, "",
       {<<"enum", "EncodeState">>, <<"struct", "CompressedRead">>,
        <<"struct", "Error">>, <<"struct", "StartFut">>, <<"fn", "finish">>,
        <<"fn", "poll">>, <<"struct", "Example">>, <<"fn", "poll_next_part">>,
        <<"fn", "poll_part">>, <<"fn", "poll_eos">>, <<"fn", "poll_finish">>,
        <<"fn", "poll_next">>},
       {"unimplemented", "panic"}, <<>>) >>

MacroCall(name, input) ==
  [kind |-> "macro_call", name |-> name, export |-> FALSE, rules |-> <<>>,
   input |-> input]

\* File_01 with its own macro invoked below the definition.
File_01_Invoked ==
  [path    |-> "2019-08-08-await-a-minute.rs",
   heading |-> "# Await a minute, why bother?",
   byline  |-> [author |-> "David Tolnay", date |-> "2019.08.08"],
   blocks  |-> Blocks_01,
   items   |-> << MacroRules("_01__await_a_minute",
                    << Rule(RecordMatcher("August 8, 2019", "David Tolnay"),
                            <<>>) >>),
                  MacroCall("_01__await_a_minute",
                    RecordMatcher("August 8, 2019", "David Tolnay")) >>]

File_01 ==
  [path    |-> "2019-08-08-await-a-minute.rs",
   heading |-> "# Await a minute, why bother?",
   byline  |-> [author |-> "David Tolnay", date |-> "2019.08.08"],
   blocks  |-> Blocks_01,
   items   |-> << MacroRules("_01__await_a_minute",
                    << Rule(RecordMatcher("August 8, 2019", "David Tolnay"),
                            <<>>) >>) >>]

Blocks_02 ==
  << Block(33, 42, "",
       {<<"struct", "Point">>, <<"fn", "print_point">>}, {"println"}, <<>>),
     Block(46, 55, "compile_fail",
       {<<"struct", "Point">>, <<"fn", "embiggen_x">>}, {}, <<>>),
     Block(57, 65, "console", {}, {}, <<>>),
     Block(70, 79, "",
       {<<"struct", "Point">>, <<"fn", "embiggen_x">>}, {}, <<>>),
     Block(96, 104, "",
       {<<"struct", "AtomicU32">>, <<"const", "IGNORE">>}, {"stringify"}, <<>>),
     Block(109, 117, "",
       {<<"static", "COUNTER">>, <<"fn", "reset">>}, {}, <<>>),
     Block(142, 150, "cpp", {}, {}, <<>>),
     Block(152, 162, "console", {}, {}, <<>>),
     Block(184, 192, "",
       {<<"struct", "AtomicU32">>, <<"const", "IGNORE">>}, {"stringify"}, <<>>) >>

\* File_02 with the COUNTER of its example declared in the module itself.
File_02_CrateStatic ==
  [path    |-> "2019-10-01-reference-types.rs",
   heading |-> "# Accurate mental model for Rust's reference types",
   byline  |-> [author |-> "David Tolnay", date |-> "2019.10.01"],
   blocks  |-> Blocks_02,
   items   |-> << [kind |-> "static", name |-> "COUNTER", export |-> FALSE,
                   rules |-> <<>>, input |-> <<>>],
                  MacroRules("_02__reference_types",
                    << Rule(RecordMatcher("October 1, 2019", "David Tolnay"),
                            <<>>) >>) >>]

File_02 ==
  [path    |-> "2019-10-01-reference-types.rs",
   heading |-> "# Accurate mental model for Rust's reference types",
   byline  |-> [author |-> "David Tolnay", date |-> "2019.10.01"],
   blocks  |-> Blocks_02,
   items   |-> << MacroRules("_02__reference_types",
                    << Rule(RecordMatcher("October 1, 2019", "David Tolnay"),
                            <<>>) >>) >>]

Blocks_03 ==
  << Block(77, 83, "", {<<"const", "IGNORE">>}, {"stringify"}, <<>>),
     Block(109, 118, "", {<<"fn", "ffi::frob">>, <<"fn", "frob">>},
       {"assert"}, <<>>),
     Block(126, 142, "",
       {<<"fn", "ffi::frob">>, <<"enum", "FrobLevel">>, <<"fn", "frob">>},
       {}, <<>>),
     Block(147, 156, "", {<<"fn", "ffi::frob">>, <<"fn", "frob_unchecked">>},
       {}, <<>>),
     Block(163, 172, "", {<<"fn", "ffi::frob">>, <<"fn", "frob">>}, {}, <<>>) >>

File_03 ==
  [path    |-> "2019-12-09-soundness-bugs.rs",
   heading |-> "# Soundness bugs in Rust libraries: can't live with 'em, can't live without 'em",
   byline  |-> [author |-> "David Tolnay", date |-> "2019.12.09"],
   blocks  |-> Blocks_03,
   items   |-> << MacroRules("_03__soundness_bugs",
                    << Rule(RecordMatcher("December 9, 2019", "David Tolnay"),
                            <<>>) >>) >>]

\* File_04 with the author recorded before the date.
File_04_AuthorFirst ==
  [path    |-> "2020-02-20-triage-scale.rs",
   heading |-> "# Triage at scale for the Rust team",
   byline  |-> [author |-> "David Tolnay", date |-> "2020.20.02"],
   blocks  |-> <<>>,
   items   |-> << MacroRules("_04__triage_scale",
                    << Rule(<< Group("brace",
                                 << Id("author"), P(":"), Lit("David Tolnay"), P(","),
                                    Id("date"), P(":"), Lit("Feburary 20, 2020"),
                                    P(",") >>) >>,
                            <<>>) >>) >>]

File_04 ==
  [path    |-> "2020-02-20-triage-scale.rs",
   heading |-> "# Triage at scale for the Rust team",
   byline  |-> [author |-> "David Tolnay", date |-> "2020.20.02"],
   blocks  |-> <<>>,
   items   |-> << MacroRules("_04__triage_scale",
                    << Rule(RecordMatcher("Feburary 20, 2020", "David Tolnay"),
                            <<>>) >>) >>]

\* The essay files of the repository, in the order of their file names.
EssayFiles == << File_01, File_02, File_03, File_04 >>

Essays == 1..Len(EssayFiles)

ItemsOfKind(f, kinds) == {k \in DOMAIN f.items : f.items[k].kind \in kinds}

\* The markers of a file: its macro_rules items.
Markers(f) == {f.items[k] : k \in ItemsOfKind(f, {"macro_rules"})}

\* The items of lib.rs, in order.
LibItem(kind, name, path) == [kind |-> kind, name |-> name, path |-> path]

\* lib.rs with the last module's path copied from the one before.
LibItems_CopiedPath ==
  << LibItem("inner_doc", "Essays by David Tolnay", ""),
     LibItem("inner_attr", "allow(non_snake_case)", ""),
     LibItem("inner_attr", "doc(html_logo_url)", ""),
     LibItem("mod", "_01", "2019-08-08-await-a-minute.rs"),
     LibItem("mod", "_02", "2019-10-01-reference-types.rs"),
     LibItem("mod", "_03", "2019-12-09-soundness-bugs.rs"),
     LibItem("mod", "_04", "2019-12-09-soundness-bugs.rs") >>

LibItems ==
  << LibItem("inner_doc", "Essays by David Tolnay", ""),
     LibItem("inner_attr", "allow(non_snake_case)", ""),
     LibItem("inner_attr", "doc(html_logo_url)", ""),
     LibItem("mod", "_01", "2019-08-08-await-a-minute.rs"),
     LibItem("mod", "_02", "2019-10-01-reference-types.rs"),
     LibItem("mod", "_03", "2019-12-09-soundness-bugs.rs"),
     LibItem("mod", "_04", "2020-02-20-triage-scale.rs") >>

(***************************************************************************)
(* SpecBuild: the toolchain over the crate.                                *)
(***************************************************************************)
\* Doctests the harness runs at once.
MaxThreads == 2

\* Scope of an item or call: the crate itself, or the doctest <<essay, line>>.
CrateScope == <<0, 0>>

\* rustdoc tests a fenced block only when its language string is Rust's:
\* empty or a doctest attribute; "console" and "cpp" blocks are text.
IsRustBlock(b) == b.lang \in {"", "compile_fail"}

FileIndex(path) == {i \in Essays : EssayFiles[i].path = path}

BlockAt(t) ==
  LET bs == EssayFiles[t[1]].blocks IN
  bs[CHOOSE k \in DOMAIN bs : bs[k].first = t[2]]

\* The doctests of essay i, in source order.
TestsOf(i) ==
  LET rust == SelectSeq(EssayFiles[i].blocks, IsRustBlock) IN
  [k \in DOMAIN rust |-> <<i, rust[k].first>>]

InitBuildVars ==
  /\ cursor = 1
  /\ modules = <<>>
  /\ exported = {}
  /\ declared = {}
  /\ expanded = {}
  /\ queue = <<>>
  /\ running = <<>>
  /\ finished = <<>>
  /\ executed = {}

\* rustc takes the next item of lib.rs.  A mod item with a path attribute
\* loads that file: its items are declared in the crate, its exported macros
\* reach the crate root, a macro invocation among its items is expanded, and
\* the Rust blocks of its doc comment join the doctests.  A path that names
\* no file stops the build.  A doc comment or an attribute of the crate
\* declares nothing; any other item is declared in the crate.
LoadItem ==
  /\ cursor <= Len(LibItems)
  /\ LET it == LibItems[cursor] IN
     IF it.kind = "mod"
     THEN /\ FileIndex(it.path) # {}
          /\ LET i == CHOOSE i \in FileIndex(it.path) : TRUE
                 f == EssayFiles[i] IN
             /\ modules' = Append(modules,
                             [name |-> it.name, path |-> it.path, essay |-> i])
             /\ declared' = declared
                  \cup {[scope |-> CrateScope, kind |-> "mod", name |-> it.name]}
                  \cup {[scope |-> CrateScope, kind |-> f.items[k].kind,
                         name |-> f.items[k].name] :
                          k \in DOMAIN f.items \ ItemsOfKind(f, {"macro_call"})}
             /\ exported' = exported
                  \cup {f.items[k].name :
                          k \in {k \in ItemsOfKind(f, {"macro_rules"}) :
                                   f.items[k].export}}
             /\ expanded' = expanded
                  \cup {[scope |-> CrateScope, name |-> f.items[k].name] :
                          k \in ItemsOfKind(f, {"macro_call"})}
             /\ queue' = queue \o TestsOf(i)
     ELSE /\ declared' =
               IF it.kind \in {"inner_doc", "inner_attr"} THEN declared
               ELSE declared
                      \cup {[scope |-> CrateScope, kind |-> it.kind, name |-> it.name]}
          /\ UNCHANGED <<modules, exported, expanded, queue>>
  /\ cursor' = cursor + 1
  /\ UNCHANGED <<running, finished, executed>>

\* The harness starts the next doctest once the crate is built and a thread
\* is free.
StartTest ==
  /\ cursor > Len(LibItems)
  /\ queue # <<>>
  /\ Cardinality(DOMAIN running) < MaxThreads
  /\ running' = running @@ (Head(queue) :> "compiling")
  /\ queue' = Tail(queue)
  /\ UNCHANGED <<cursor, modules, exported, declared, expanded, finished,
                 executed>>

Without(f, t) == [x \in DOMAIN f \ {t} |-> f[x]]

\* A doctest is compiled as a program of its own: its items are declared and
\* its macro invocations expanded.  A compile_fail block must fail to compile
\* (here E0594), which ends the test successfully with nothing to run.
CompileTest(t) ==
  /\ t \in DOMAIN running
  /\ running[t] = "compiling"
  /\ LET b == BlockAt(t) IN
     /\ expanded' = expanded \cup {[scope |-> t, name |-> m] : m \in b.macros}
     /\ IF b.lang = "compile_fail"
        THEN /\ running' = Without(running, t)
             /\ finished' = finished @@ (t :> "ok")
             /\ UNCHANGED declared
        ELSE /\ running' = [running EXCEPT ![t] = "built"]
             /\ declared' = declared
                  \cup {[scope |-> t, kind |-> d[1], name |-> d[2]] : d \in b.items}
             /\ UNCHANGED finished
  /\ UNCHANGED <<cursor, modules, exported, queue, executed>>

\* The built doctest runs its main: the block's top-level statements, each
\* call of which is recorded.  A block of items alone runs an empty main.
RunTest(t) ==
  /\ t \in DOMAIN running
  /\ running[t] = "built"
  /\ LET b == BlockAt(t) IN
     executed' = executed
       \cup {[scope |-> t, call |-> b.main[k], step |-> k] : k \in DOMAIN b.main}
  /\ running' = Without(running, t)
  /\ finished' = finished @@ (t :> "ok")
  /\ UNCHANGED <<cursor, modules, exported, declared, expanded, queue>>

(***************************************************************************)
(* SpecMacro: a dependent crate invokes one exported macro once.           *)
(***************************************************************************)
\* Token edits applied to a macro's own record to form an invocation.
MaxEdits == 1

ExportedMacros ==
  {m \in UNION {Markers(EssayFiles[i]) : i \in Essays} : m.export}

MacroNamed(n) == CHOOSE m \in ExportedMacros : m.name = n

\* Leaf tokens compared by kind alone, as a $x:literal fragment would.
TokenEq_KindOnly(p, t) == p.kind = t.kind

\* Two leaf tokens are the same token: same kind, same text.
TokenEq(p, t) == p.kind = t.kind /\ p.text = t.text

RECURSIVE MatchSeq(_, _)
\* A matcher token tree against an input token tree: a group needs the same
\* delimiter and matching contents, a leaf the same token.
MatchTree(p, t) ==
  IF p.kind = "group"
  THEN t.kind = "group" /\ t.delim = p.delim /\ MatchSeq(p.inner, t.inner)
  ELSE TokenEq(p, t)

\* A matcher without metavariables matches exactly the token streams that
\* are its own trees one after another, with nothing left over.
MatchSeq(ps, ts) ==
  IF ps = <<>> THEN ts = <<>>
  ELSE /\ ts # <<>>
       /\ MatchTree(Head(ps), Head(ts))
       /\ MatchSeq(Tail(ps), Tail(ts))

\* The rules of a macro are tried in order; the first that matches is used.
MatchingRules(mac, input) ==
  {k \in DOMAIN mac.rules : MatchSeq(mac.rules[k].matcher, input)}

FirstMatch(mac, input) ==
  CHOOSE k \in MatchingRules(mac, input) :
    \A j \in MatchingRules(mac, input) : k <= j

\* A transcriber that emits the record as a constant item.
Transcribe_Item(rule) == << Id("const"), Id("META") >> \o rule.matcher

\* No metavariable is bound by these matchers: transcription copies the
\* transcriber's tokens.
Transcribe(rule) == rule.transcriber

\* Items a token stream defines when parsed at item position.
ItemsIn(ts) ==
  {ts[k + 1].text :
     k \in {k \in 1..(Len(ts) - 1) :
              ts[k] \in {Id("fn"), Id("static"), Id("struct"), Id("const")}}}

\* Tokens an edit may put into an invocation: those of the four records and
\* a field no record has.
Vocabulary ==
  UNION {{m.rules[1].matcher[1].inner[k] :
            k \in DOMAIN m.rules[1].matcher[1].inner} : m \in ExportedMacros}
    \cup {Id("title")}

Delete(s, i) == SubSeq(s, 1, i - 1) \o SubSeq(s, i + 1, Len(s))
Insert(s, i, t) == SubSeq(s, 1, i - 1) \o <<t>> \o SubSeq(s, i, Len(s))
Replace(s, i, t) == [s EXCEPT ![i] = t]
Splice(s, i, ts) == SubSeq(s, 1, i - 1) \o ts \o SubSeq(s, i + 1, Len(s))
FirstHalf(s) == SubSeq(s, 1, Len(s) \div 2)
SecondHalf(s) == SubSeq(s, Len(s) \div 2 + 1, Len(s))
ExtraField == << Id("title"), P(":"), Lit("David Tolnay"), P(",") >>

\* One edit of the inside of a record: a token deleted, inserted or replaced;
\* the fields swapped; a field missing; a field added.
Edits(s) ==
  {Delete(s, i) : i \in DOMAIN s}
    \cup {Insert(s, i, t) : i \in 1..(Len(s) + 1), t \in Vocabulary}
    \cup {Replace(s, i, t) : i \in DOMAIN s, t \in Vocabulary}
    \cup {SecondHalf(s) \o FirstHalf(s), FirstHalf(s), SecondHalf(s),
          ExtraField \o s, FirstHalf(s) \o ExtraField \o SecondHalf(s),
          s \o ExtraField}

\* One edit of an invocation's token stream: a tree deleted or a stray token
\* added beside it; a group's delimiter changed, its braces dropped, or its
\* inside edited.
StreamEdits(ts) ==
  {Delete(ts, i) : i \in DOMAIN ts}
    \cup {Insert(ts, i, t) : i \in 1..(Len(ts) + 1), t \in Vocabulary}
    \cup UNION {
           {Replace(ts, i, Group(d, ts[i].inner)) :
              d \in {"brace", "paren", "bracket"}}
             \cup {Splice(ts, i, ts[i].inner)}
             \cup {Replace(ts, i, Group(ts[i].delim, e)) : e \in Edits(ts[i].inner)}
           : i \in {i \in DOMAIN ts : ts[i].kind = "group"}}

\* Items of the dependent crate before any expansion.
OwnItems == {"main"}

InitMacroVars ==
  /\ dpc = "source"
  /\ dmacro = ""
  /\ dinput = <<>>
  /\ dedits = 0
  /\ expansion = <<>>
  /\ ditems = OwnItems
  /\ diag = <<>>
  /\ druntime = <<>>

\* The author of the dependent crate changes the invocation before building.
EditInvocation ==
  /\ dpc = "source"
  /\ dedits < MaxEdits
  /\ dinput' \in StreamEdits(dinput)
  /\ dedits' = dedits + 1
  /\ UNCHANGED <<dpc, dmacro, expansion, ditems, diag, druntime>>

\* A mismatch reported and then expanded to a run-time panic.
Reject_AtRunTime ==
  /\ diag' = Append(diag, "warning: no rules expected the token")
  /\ dpc' = "expanded"
  /\ expansion' = Append(expansion, << Id("panic"), P("!") >>)
  /\ UNCHANGED ditems

\* No rule matches: a build error, and the build ends there.
Reject ==
  /\ diag' = Append(diag, "error: no rules expected the token")
  /\ dpc' = "rejected"
  /\ UNCHANGED <<expansion, ditems>>

\* rustc expands the invocation: the first matching rule's transcription
\* replaces it, and the items it defines join the crate; when no rule
\* matches, the build stops with "no rules expected the token".
ExpandInvocation ==
  /\ dpc = "source"
  /\ LET mac == MacroNamed(dmacro) IN
     IF MatchingRules(mac, dinput) # {}
     THEN LET out == Transcribe(mac.rules[FirstMatch(mac, dinput)]) IN
          /\ expansion' = Append(expansion, out)
          /\ ditems' = ditems \cup ItemsIn(out)
          /\ dpc' = "expanded"
          /\ UNCHANGED diag
     ELSE Reject
  /\ UNCHANGED <<dmacro, dinput, dedits, druntime>>

\* With every invocation expanded the crate compiles to a binary.
CompileCrate ==
  /\ dpc = "expanded"
  /\ dpc' = "built"
  /\ UNCHANGED <<dmacro, dinput, dedits, expansion, ditems, diag, druntime>>

\* The binary runs its main.
RunCrate ==
  /\ dpc = "built"
  /\ dpc' = "ran"
  /\ druntime' = Append(druntime, "main")
  /\ UNCHANGED <<dmacro, dinput, dedits, expansion, ditems, diag>>

(***************************************************************************)
(* SpecFrob: a caller of the bindings of frob.                             *)
(***************************************************************************)
\* Arguments are drawn from -MaxArg..MaxArg and the two ends of i32.
MaxArg == 12
\* Calls one caller makes.
MaxCalls == 2

\* The ends of i32, the type of arg.
I32Max == 2147483647
I32Min == -I32Max - 1

Args == (-MaxArg..MaxArg) \cup {I32Min, I32Max}

FrobLevel == {"Low", "Medium", "High", "Critical"}

\* The enum with Critical given the forbidden value.
Discriminant_CriticalForbidden(level) ==
  CASE level = "Low" -> 0
    [] level = "Medium" -> 1
    [] level = "High" -> 2
    [] level = "Critical" -> 10

Discriminant(level) ==
  CASE level = "Low" -> 0
    [] level = "Medium" -> 1
    [] level = "High" -> 2
    [] level = "Critical" -> 3

\* The argument frob requires never to receive.
Forbidden == 10

\* C frob: requires arg != 10; with 10 it stomps on memory, after which
\* nothing about the memory is known.
FfiFrob(mem, arg) == IF arg = Forbidden THEN {"intact", "stomped"} ELSE {mem}

InitFrobVars ==
  /\ fpc = "idle"
  /\ fcalls = <<>>
  /\ ffiLog = <<>>
  /\ memory = "intact"

\* The assertion with the wrong constant.
CheckedAssert_WrongConstant(arg) == arg # Forbidden + 1

\* The assertion of the checked binding.
CheckedAssert(arg) == arg # Forbidden

\* pub fn frob(arg: i32) { assert!(arg != 10); unsafe { ffi::frob(arg) } }
FrobChecked(arg) ==
  /\ fpc = "idle"
  /\ Len(fcalls) < MaxCalls
  /\ fcalls' = Append(fcalls, [binding |-> "checked", level |-> "", arg |-> arg])
  /\ IF CheckedAssert(arg)
     THEN /\ ffiLog' = Append(ffiLog, [binding |-> "checked", arg |-> arg])
          /\ memory' \in FfiFrob(memory, arg)
          /\ fpc' = "idle"
     ELSE /\ fpc' = "panicked"
          /\ UNCHANGED <<ffiLog, memory>>

\* pub fn frob(level: FrobLevel) { let arg = level as i32; unsafe { ffi::frob(arg) } }
FrobEnum(level) ==
  /\ fpc = "idle"
  /\ Len(fcalls) < MaxCalls
  /\ LET arg == Discriminant(level) IN  \* every discriminant is an i32: the cast keeps it
     /\ fcalls' = Append(fcalls, [binding |-> "enum", level |-> level, arg |-> arg])
     /\ ffiLog' = Append(ffiLog, [binding |-> "enum", arg |-> arg])
     /\ memory' \in FfiFrob(memory, arg)
  /\ fpc' = "idle"

\* The binding with the assertion of the checked binding put in.
FrobUnsound_Asserted(arg) ==
  /\ fpc = "idle"
  /\ Len(fcalls) < MaxCalls
  /\ fcalls' = Append(fcalls, [binding |-> "unsound", level |-> "", arg |-> arg])
  /\ IF arg # Forbidden
     THEN /\ ffiLog' = Append(ffiLog, [binding |-> "unsound", arg |-> arg])
          /\ memory' \in FfiFrob(memory, arg)
          /\ fpc' = "idle"
     ELSE /\ fpc' = "panicked"
          /\ UNCHANGED <<ffiLog, memory>>

\* pub fn frob(arg: i32) { /* UNSOUND */ unsafe { ffi::frob(arg) } }
FrobUnsound(arg) ==
  /\ fpc = "idle"
  /\ Len(fcalls) < MaxCalls
  /\ fcalls' = Append(fcalls, [binding |-> "unsound", level |-> "", arg |-> arg])
  /\ ffiLog' = Append(ffiLog, [binding |-> "unsound", arg |-> arg])
  /\ memory' \in FfiFrob(memory, arg)
  /\ fpc' = "idle"

(***************************************************************************)
(* SpecPoll: a caller of poll_next, the handwritten state machine of the   *)
(* await essay.  poll_next takes the state by value and returns the poll   *)
(* result with the next state; the caller holds what it was given back.    *)
(* StartFut::poll, StartFut::finish and the four poll_* helpers are        *)
(* elided in the essay (their bodies are unimplemented!()): each yields    *)
(* any value of its return type, or panics.                                *)
(***************************************************************************)
MaxPolls == 3

\* struct StartFut; values told apart by identity only.
StartFuts == {"f1", "f2"}
\* W, the type parameter of EncodeState and of the poll item.
Ws == {"w1"}
\* struct Error; values told apart by identity only.
Errors == {"e1", "e2"}

\* enum EncodeState<W>
Start(start_state) == [tag |-> "Start", val |-> start_state]
PartState == [tag |-> "Part", val |-> ""]
EndOfStream == [tag |-> "EndOfStream", val |-> ""]
Finish(compressor) == [tag |-> "Finish", val |-> compressor]
Done == [tag |-> "Done", val |-> ""]
Invalid == [tag |-> "Invalid", val |-> ""]
EncodeStates ==
  {Start(f) : f \in StartFuts} \cup {PartState, EndOfStream, Done, Invalid}
    \cup {Finish(w) : w \in Ws}

\* The state was passed by value to a call that did not return.
Moved == [tag |-> "Moved", val |-> ""]

\* Poll<T, Error>, and a panic in place of a returned value.
Ready(v) == [kind |-> "Ready", val |-> v]
NotReady == [kind |-> "NotReady", val |-> ""]
Err(err) == [kind |-> "Err", val |-> err]
Panicked == [kind |-> "Panicked", val |-> ""]

\* What StartFut::poll can yield: Poll<(), Error>.
StartPolls == {Ready(""), NotReady, Panicked} \cup {Err(e) : e \in Errors}

\* What StartFut::finish can yield: the pair (iter, sink) of units.
Finishes == {Ready(""), Panicked}

\* What poll_next_part, poll_part, poll_eos and poll_finish can yield:
\* (Poll<W, Error>, EncodeState<W>).
HelperReturns ==
  {[result |-> r, state |-> s] :
     r \in {Ready(w) : w \in Ws} \cup {NotReady} \cup {Err(e) : e \in Errors},
     s \in EncodeStates}
    \cup {[result |-> Panicked, state |-> Moved]}

\* One call made inside poll_next and what it yielded.
Call(fn, result, state) == [fn |-> fn, result |-> result, state |-> state]

\* What one call of poll_next did: the calls it made, and what it returned.
Outcome(calls, result, to) == [calls |-> calls, result |-> result, to |-> to]

\* A call made inside poll_next panicked: poll_next unwinds.
Unwound(calls) == Outcome(calls, Panicked, Moved)

\* poll_next returning a helper's pair as it is.
Delegate(fn) ==
  {Outcome(<<Call(fn, h.result, h.state)>>, h.result, h.state) :
     h \in HelperReturns}

\* The arm with a state other than Start given back.
StartNotReady_Invalid(start_state) ==
  Outcome(<<Call("poll", NotReady, Moved)>>, NotReady, Invalid)

\* Ok(Async::NotReady) => (Ok(Async::NotReady), EncodeState::Start(start_state))
StartNotReady(start_state) ==
  Outcome(<<Call("poll", NotReady, Moved)>>, NotReady, Start(start_state))

\* The arm with the start state kept after an error.
StartErr_KeepsStart(start_state, err) ==
  Outcome(<<Call("poll", Err(err), Moved)>>, Err(err), Start(start_state))

\* Err(err) => (Err(err), EncodeState::Invalid)
StartErr(start_state, err) ==
  Outcome(<<Call("poll", Err(err), Moved)>>, Err(err), Invalid)

\* Ok(Async::Ready(())) => { let (iter, sink) = start_state.finish();
\*                           Self::poll_next_part(iter, sink) }
StartReady(start_state) ==
  LET polled == Call("poll", Ready(""), Moved) IN
  {Unwound(<<polled, Call("finish", Panicked, Moved)>>)}
    \cup {Outcome(<<polled, Call("finish", Ready(""), Moved),
                    Call("poll_next_part", h.result, h.state)>>,
                  h.result, h.state) : h \in HelperReturns}

\* EncodeState::Start(mut start_state) => match start_state.poll() { .. }
PollStart(start_state) ==
  UNION {CASE p.kind = "Ready" -> StartReady(start_state)
           [] p.kind = "NotReady" -> {StartNotReady(start_state)}
           [] p.kind = "Err" -> {StartErr(start_state, p.val)}
           [] p.kind = "Panicked" -> {Unwound(<<Call("poll", Panicked, Moved)>>)}
         : p \in StartPolls}

\* fn poll_next(state: EncodeState<W>) -> (Poll<W, Error>, EncodeState<W>)
poll_next(state) ==
  CASE state.tag = "Start" -> PollStart(state.val)
    [] state.tag = "Part" -> Delegate("poll_part")
    [] state.tag = "EndOfStream" -> Delegate("poll_eos")
    [] state.tag = "Finish" -> Delegate("poll_finish")
    [] state.tag = "Done" -> {Unwound(<<>>)}
    [] state.tag = "Invalid" -> {Unwound(<<>>)}

InitPollVars ==
  /\ estate = Start("f1")
  /\ polls = <<>>

\* The caller passes the state it holds to poll_next and keeps the state it
\* is given back; after a panic it holds none.
PollNext ==
  /\ estate # Moved
  /\ Len(polls) < MaxPolls
  /\ \E o \in poll_next(estate) :
       /\ polls' = Append(polls, [from |-> estate, calls |-> o.calls,
                                   result |-> o.result, to |-> o.to])
       /\ estate' = o.to

(***************************************************************************)
(* SpecSetup: the service set-up of the await essay, written with          *)
(* combinators ("before") and with await ("after"), both run against the   *)
(* same ServiceFramework.  The bodies of new, add_module and serve are     *)
(* elided in the essay: a call succeeds, fails or panics, and has the same *)
(* outcome for both versions.                                              *)
(***************************************************************************)
\* The calls in the order both snippets write them.
SetupCalls ==
  <<"new", "add_module(BuildModule)", "add_module(ThriftStatsModule)",
    "add_module(ProfileModule)", "serve">>

\* The call written after call c.
Following(c) ==
  LET i == CHOOSE k \in DOMAIN SetupCalls : SetupCalls[k] = c IN SetupCalls[i + 1]

\* Result<_, ()> of new and add_module, the resolution of serve's future,
\* or a panic inside the call.
Outcomes == {"Ok", "Err", "Panic"}

Unset == "unset"

\* The outcome of call c: drawn when the first version makes the call.
Drawn(c) == IF oracle[c] = Unset THEN Outcomes ELSE {oracle[c]}

InitSetupVars ==
  /\ oracle = [c \in {SetupCalls[k] : k \in DOMAIN SetupCalls} |-> Unset]
  /\ bpc = "new"
  /\ bcalls = <<>>
  /\ add_modules = "none"
  /\ bresult = "none"
  /\ apc = "new"
  /\ acalls = <<>>
  /\ aresult = "none"

\* and_then with the closure run whatever the result (as `then` does).
AndThenRuns_Always(result) == TRUE

\* Result::and_then and Future::and_then run the closure only on Ok.
AndThenRuns(result) == result = "Ok"

\* let mut svc = ServiceFramework::new(..).unwrap();
BeforeNew ==
  /\ bpc = "new"
  /\ \E o \in Drawn("new") :
       /\ oracle' = [oracle EXCEPT !["new"] = o]
       /\ bcalls' = Append(bcalls, "new")
       /\ IF o = "Ok"
          THEN bpc' = Following("new") /\ UNCHANGED bresult
          ELSE bpc' = "panicked" /\ bresult' = "Panic"
  /\ UNCHANGED <<add_modules, apc, acalls, aresult>>

\* svc.add_module(BuildModule)
\*    .and_then(|_| svc.add_module(ThriftStatsModule))
\*    .and_then(|_| svc.add_module(ProfileModule));
\* then future::result(add_modules).and_then(..) builds the future.
BeforeAddModule(c) ==
  /\ bpc = c
  /\ \E o \in Drawn(c) :
       /\ oracle' = [oracle EXCEPT ![c] = o]
       /\ bcalls' = Append(bcalls, c)
       /\ CASE o = "Panic" ->
                 bpc' = "panicked" /\ bresult' = "Panic" /\ UNCHANGED add_modules
            [] o # "Panic" /\ (c = SetupCalls[4] \/ ~AndThenRuns(o)) ->
                 bpc' = "pending" /\ add_modules' = o /\ UNCHANGED bresult
            [] OTHER ->
                 bpc' = Following(c) /\ UNCHANGED <<add_modules, bresult>>
  /\ UNCHANGED <<apc, acalls, aresult>>

\* The future is polled: future::result(add_modules) is ready at once, and
\* .and_then(|_| svc.serve()) calls serve and resolves as its future does.
BeforePoll ==
  /\ bpc = "pending"
  /\ IF AndThenRuns(add_modules)
     THEN \E o \in Drawn("serve") :
            /\ oracle' = [oracle EXCEPT !["serve"] = o]
            /\ bcalls' = Append(bcalls, "serve")
            /\ bresult' = o
            /\ bpc' = IF o = "Panic" THEN "panicked" ELSE "done"
     ELSE /\ bresult' = add_modules
          /\ bpc' = "done"
          /\ UNCHANGED <<oracle, bcalls>>
  /\ UNCHANGED <<add_modules, apc, acalls, aresult>>

\* try_main's future is polled: each call is followed by `?`, serve's by
\* `.await?`, and the body ends with Ok(()).
AfterStep(c) ==
  /\ apc = c
  /\ \E o \in Drawn(c) :
       /\ oracle' = [oracle EXCEPT ![c] = o]
       /\ acalls' = Append(acalls, c)
       /\ CASE o = "Panic" -> apc' = "panicked" /\ aresult' = "Panic"
            [] o = "Err" -> apc' = "done" /\ aresult' = "Err"
            [] o = "Ok" /\ c = "serve" -> apc' = "done" /\ aresult' = "Ok"
            [] OTHER -> apc' = Following(c) /\ UNCHANGED aresult
  /\ UNCHANGED <<bpc, bcalls, add_modules, bresult>>

(***************************************************************************)
(* SpecHandler: handle_get_counters of the await essay, written with       *)
(* combinators and as an async fn, both run on the same request.  The      *)
(* argument decoding is snipped in the essay and the bodies of             *)
(* get_counters and write_message are elided: a stage succeeds, fails or   *)
(* panics, and has the same outcome for both versions.                     *)
(***************************************************************************)
MaxNotReady == 1

\* The stages in the order both versions write them.
HandlerStages == <<"decode", "get_counters", "write_message">>

\* Result<_, Error> of a stage, or a panic inside it.
StageOutcomes == {"Ok", "Err", "Panic"}

\* The outcome of stage s: drawn when the first version runs the stage.
DrawnStage(s) == IF stages[s] = Unset THEN StageOutcomes ELSE {stages[s]}

\* What a version resolves to when stage s ended with outcome o: the error
\* of the stage that failed, or the encoded reply.
Resolved(s, o) ==
  CASE o = "Ok" -> "Ok(enc)"
    [] o = "Err" -> "Err from " \o s
    [] o = "Panic" -> "Panic"

\* A stage as run, with the protocol handed to write_message.
Ran(s, protocol) == [stage |-> s, protocol |-> protocol]

InitHandlerVars ==
  /\ stages = [s \in {HandlerStages[k] : k \in DOMAIN HandlerStages} |-> Unset]
  /\ cpc = "decode"
  /\ cran = <<>>
  /\ ret = "none"
  /\ cpolls = 0
  /\ cresult = "none"
  /\ wpc = "decode"
  /\ wran = <<>>
  /\ wpolls = 0
  /\ wresult = "none"

\* let args = {/* snip: some code using `?` */}; inside the closure: an
\* error is what the closure returns.
CombDecode ==
  /\ cpc = "decode"
  /\ \E o \in DrawnStage("decode") :
       /\ stages' = [stages EXCEPT !["decode"] = o]
       /\ cran' = Append(cran, Ran("decode", ""))
       /\ CASE o = "Ok" -> cpc' = "get_counters" /\ UNCHANGED <<ret, cresult>>
            [] o = "Err" ->
                 cpc' = "pending" /\ ret' = Resolved("decode", o) /\ UNCHANGED cresult
            [] o = "Panic" ->
                 cpc' = "panicked" /\ cresult' = "Panic" /\ UNCHANGED ret
  /\ UNCHANGED <<cpolls, wpc, wran, wpolls, wresult>>

\* Ok(self.service.get_counters(args)): the call is made and its future
\* put in ret; map, then, into_future and flatten build the future returned.
CombCall ==
  /\ cpc = "get_counters"
  /\ cran' = Append(cran, Ran("get_counters", ""))
  /\ ret' = "Ok(future)"
  /\ cpc' = "pending"
  /\ UNCHANGED <<stages, cpolls, cresult, wpc, wran, wpolls, wresult>>

\* The closure given to then with write_message called whatever res is.
ThenWrites_Always(res) == TRUE

\* res.and_then(move |res| write_message(..)): write_message is called
\* only with the Res of an Ok.
ThenWrites(res) == res = "Ok"

\* The returned future is polled and the get_counters future is not ready.
CombNotReady ==
  /\ cpc = "pending"
  /\ ret = "Ok(future)"
  /\ cpolls < MaxNotReady
  /\ cpolls' = cpolls + 1
  /\ UNCHANGED <<stages, cpc, cran, ret, cresult, wpc, wran, wpolls, wresult>>

\* The returned future is polled: flatten resolves with the closure's error,
\* or with what the get_counters future followed by the then closure yields.
CombReady ==
  /\ cpc = "pending"
  /\ IF ret = "Ok(future)"
     THEN \E o \in DrawnStage("get_counters") :
            IF o # "Panic" /\ ThenWrites(o)
            THEN \E w \in IF stages["write_message"] = Unset
                             THEN StageOutcomes ELSE {stages["write_message"]} :
                   /\ stages' = [stages EXCEPT !["get_counters"] = o,
                                               !["write_message"] = w]
                   /\ cran' = Append(cran, Ran("write_message", "p.clone()"))
                   /\ cresult' = Resolved("write_message", w)
                   /\ cpc' = IF w = "Panic" THEN "panicked" ELSE "done"
            ELSE /\ stages' = [stages EXCEPT !["get_counters"] = o]
                 /\ cresult' = Resolved("get_counters", o)
                 /\ cpc' = IF o = "Panic" THEN "panicked" ELSE "done"
                 /\ UNCHANGED cran
     ELSE /\ cresult' = ret
          /\ cpc' = "done"
          /\ UNCHANGED <<stages, cran>>
  /\ UNCHANGED <<ret, cpolls, wpc, wran, wpolls, wresult>>

\* let args = {/* snip: some code using `?` */}; in the async fn, run when
\* its future is polled: an error is what the async fn returns.
AwaitDecode ==
  /\ wpc = "decode"
  /\ \E o \in DrawnStage("decode") :
       /\ stages' = [stages EXCEPT !["decode"] = o]
       /\ wran' = Append(wran, Ran("decode", ""))
       /\ CASE o = "Ok" -> wpc' = "get_counters" /\ UNCHANGED wresult
            [] o = "Err" -> wpc' = "done" /\ wresult' = Resolved("decode", o)
            [] o = "Panic" -> wpc' = "panicked" /\ wresult' = "Panic"
  /\ UNCHANGED <<wpolls, cpc, cran, ret, cpolls, cresult>>

\* self.service.get_counters(args) is called and its future awaited.
AwaitCall ==
  /\ wpc = "get_counters"
  /\ wran' = Append(wran, Ran("get_counters", ""))
  /\ wpc' = "awaiting"
  /\ UNCHANGED <<stages, wpolls, wresult, cpc, cran, ret, cpolls, cresult>>

\* The async fn is polled and the get_counters future is not ready.
AwaitNotReady ==
  /\ wpc = "awaiting"
  /\ wpolls < MaxNotReady
  /\ wpolls' = wpolls + 1
  /\ UNCHANGED <<stages, wpc, wran, wresult, cpc, cran, ret, cpolls, cresult>>

\* .await? yields the Res or returns the error; then
\* let enc = write_message(p, ..)?; Ok(enc)
AwaitReady ==
  /\ wpc = "awaiting"
  /\ \E o \in DrawnStage("get_counters") :
       IF o = "Ok"
       THEN \E w \in IF stages["write_message"] = Unset
                        THEN StageOutcomes ELSE {stages["write_message"]} :
              /\ stages' = [stages EXCEPT !["get_counters"] = o,
                                          !["write_message"] = w]
              /\ wran' = Append(wran, Ran("write_message", "p"))
              /\ wresult' = Resolved("write_message", w)
              /\ wpc' = IF w = "Panic" THEN "panicked" ELSE "done"
       ELSE /\ stages' = [stages EXCEPT !["get_counters"] = o]
            /\ wresult' = Resolved("get_counters", o)
            /\ wpc' = IF o = "Panic" THEN "panicked" ELSE "done"
            /\ UNCHANGED wran
  /\ UNCHANGED <<wpolls, cpc, cran, ret, cpolls, cresult>>

(***************************************************************************)
(* The specifications.                                                     *)
(***************************************************************************)
InitBuild == InitBuildVars /\ InitMacroVars /\ InitFrobVars /\ InitPollVars /\ InitSetupVars /\ InitHandlerVars

NextBuild ==
  \/ LoadItem /\ UNCHANGED <<macroVars, frobVars, pollVars, setupVars, handlerVars>>
  \/ StartTest /\ UNCHANGED <<macroVars, frobVars, pollVars, setupVars, handlerVars>>
  \/ \E t \in DOMAIN running : CompileTest(t) /\ UNCHANGED <<macroVars, frobVars, pollVars, setupVars, handlerVars>>
  \/ \E t \in DOMAIN running : RunTest(t) /\ UNCHANGED <<macroVars, frobVars, pollVars, setupVars, handlerVars>>

SpecBuild == InitBuild /\ [][NextBuild]_vars

\* The dependent crate holds one invocation of a macro the essay crate
\* exports, written first as the macro's own record.
InitMacro ==
  /\ InitBuildVars
  /\ InitHandlerVars
  /\ InitSetupVars
  /\ InitPollVars
  /\ InitFrobVars
  /\ dpc = "source"
  /\ dmacro \in {m.name : m \in ExportedMacros}
  /\ dinput = MacroNamed(dmacro).rules[1].matcher
  /\ dedits = 0
  /\ expansion = <<>>
  /\ ditems = OwnItems
  /\ diag = <<>>
  /\ druntime = <<>>

NextMacro ==
  \/ EditInvocation /\ UNCHANGED <<buildVars, frobVars, pollVars, setupVars, handlerVars>>
  \/ ExpandInvocation /\ UNCHANGED <<buildVars, frobVars, pollVars, setupVars, handlerVars>>
  \/ CompileCrate /\ UNCHANGED <<buildVars, frobVars, pollVars, setupVars, handlerVars>>
  \/ RunCrate /\ UNCHANGED <<buildVars, frobVars, pollVars, setupVars, handlerVars>>

SpecMacro == InitMacro /\ [][NextMacro]_vars

InitFrob == InitBuildVars /\ InitMacroVars /\ InitFrobVars /\ InitPollVars /\ InitSetupVars /\ InitHandlerVars

NextFrob ==
  \/ \E arg \in Args : FrobChecked(arg) /\ UNCHANGED <<buildVars, macroVars, pollVars, setupVars, handlerVars>>
  \/ \E level \in FrobLevel : FrobEnum(level) /\ UNCHANGED <<buildVars, macroVars, pollVars, setupVars, handlerVars>>
  \/ \E arg \in Args : FrobUnsound(arg) /\ UNCHANGED <<buildVars, macroVars, pollVars, setupVars, handlerVars>>

SpecFrob == InitFrob /\ [][NextFrob]_vars

InitPoll == InitBuildVars /\ InitMacroVars /\ InitFrobVars /\ InitPollVars /\ InitSetupVars /\ InitHandlerVars

NextPoll ==
  \/ PollNext /\ UNCHANGED <<buildVars, macroVars, frobVars, setupVars, handlerVars>>

SpecPoll == InitPoll /\ [][NextPoll]_vars

InitSetup == InitBuildVars /\ InitMacroVars /\ InitFrobVars /\ InitPollVars /\ InitSetupVars /\ InitHandlerVars

NextSetup ==
  \/ BeforeNew /\ UNCHANGED <<buildVars, macroVars, frobVars, pollVars, handlerVars>>
  \/ \E c \in {SetupCalls[k] : k \in 2..4} :
       BeforeAddModule(c) /\ UNCHANGED <<buildVars, macroVars, frobVars, pollVars, handlerVars>>
  \/ BeforePoll /\ UNCHANGED <<buildVars, macroVars, frobVars, pollVars, handlerVars>>
  \/ \E c \in {SetupCalls[k] : k \in DOMAIN SetupCalls} :
       AfterStep(c) /\ UNCHANGED <<buildVars, macroVars, frobVars, pollVars, handlerVars>>

SpecSetup == InitSetup /\ [][NextSetup]_vars

InitHandler ==
  /\ InitBuildVars /\ InitMacroVars /\ InitFrobVars /\ InitPollVars
  /\ InitSetupVars /\ InitHandlerVars

NextHandler ==
  \/ CombDecode /\ UNCHANGED <<buildVars, macroVars, frobVars, pollVars, setupVars>>
  \/ CombCall /\ UNCHANGED <<buildVars, macroVars, frobVars, pollVars, setupVars>>
  \/ CombNotReady /\ UNCHANGED <<buildVars, macroVars, frobVars, pollVars, setupVars>>
  \/ CombReady /\ UNCHANGED <<buildVars, macroVars, frobVars, pollVars, setupVars>>
  \/ AwaitDecode /\ UNCHANGED <<buildVars, macroVars, frobVars, pollVars, setupVars>>
  \/ AwaitCall /\ UNCHANGED <<buildVars, macroVars, frobVars, pollVars, setupVars>>
  \/ AwaitNotReady /\ UNCHANGED <<buildVars, macroVars, frobVars, pollVars, setupVars>>
  \/ AwaitReady /\ UNCHANGED <<buildVars, macroVars, frobVars, pollVars, setupVars>>

SpecHandler == InitHandler /\ [][NextHandler]_vars

(***************************************************************************)
(* Reading an essay's metadata.                                            *)
(***************************************************************************)
\* The fields of a record matcher's inside, in order: name, ":", value, ",".
FieldsOf(inner) ==
  [k \in 1..(Len(inner) \div 4) |->
     [name |-> inner[4 * k - 3], colon |-> inner[4 * k - 2],
      value |-> inner[4 * k - 1], comma |-> inner[4 * k]]]

\* The string a marker records for a field; "" when it has no such field.
FieldText(mac, name) ==
  LET fs == FieldsOf(mac.rules[1].matcher[1].inner)
      ks == {k \in DOMAIN fs : fs[k].name = Id(name)}
  IN IF ks = {} THEN "" ELSE fs[CHOOSE k \in ks : TRUE].value.text

RECURSIVE StripHeading(_)
\* The title of a heading line: the text after the "#" marks and blanks.
StripHeading(h) ==
  IF Len(h) > 0 /\ SubSeq(h, 1, 1) \in {"#", " "}
  THEN StripHeading(SubSeq(h, 2, Len(h)))
  ELSE h

Title(f) == StripHeading(f.heading)

MonthNames ==
  << "January", "February", "March", "April", "May", "June", "July",
     "August", "September", "October", "November", "December" >>

Digits == << "0", "1", "2", "3", "4", "5", "6", "7", "8", "9" >>

IsDigits(s) ==
  /\ Len(s) > 0
  /\ \A i \in 1..Len(s) : \E d \in DOMAIN Digits : SubSeq(s, i, i) = Digits[d]

RECURSIVE ToNat(_)
ToNat(s) ==
  IF Len(s) = 0 THEN 0
  ELSE 10 * ToNat(SubSeq(s, 1, Len(s) - 1))
         + (CHOOSE d \in DOMAIN Digits : SubSeq(s, Len(s), Len(s)) = Digits[d]) - 1

\* Index of the first c in s; 0 when there is none.
IndexOf(s, c) ==
  LET at == {i \in 1..Len(s) : SubSeq(s, i, i) = c}
  IN IF at = {} THEN 0 ELSE CHOOSE i \in at : \A j \in at : i <= j

IsLeap(y) == (y % 4 = 0 /\ y % 100 # 0) \/ y % 400 = 0

DaysIn(m, y) ==
  IF m = 2 THEN (IF IsLeap(y) THEN 29 ELSE 28)
  ELSE IF m \in {4, 6, 9, 11} THEN 30 ELSE 31

\* "Month D, YYYY": an English month name, a day of that month, a year.
WellFormedDate(s) ==
  LET sp    == IndexOf(s, " ")
      month == SubSeq(s, 1, sp - 1)
      rest  == SubSeq(s, sp + 1, Len(s))
      cm    == IndexOf(rest, ",")
      day   == SubSeq(rest, 1, cm - 1)
      year  == SubSeq(rest, cm + 2, Len(rest))
  IN /\ sp > 1
     /\ \E m \in DOMAIN MonthNames :
          /\ month = MonthNames[m]
          /\ cm > 1
          /\ SubSeq(rest, cm + 1, cm + 1) = " "
          /\ IsDigits(day)
          /\ IsDigits(year)
          /\ Len(year) = 4
          /\ ToNat(day) \in 1..DaysIn(m, ToNat(year))

\* "YYYY.MM.DD": a year, a month of the year, a day of that month.
WellFormedByline(s) ==
  LET year  == SubSeq(s, 1, 4)
      month == SubSeq(s, 6, 7)
      day   == SubSeq(s, 9, 10)
  IN /\ Len(s) = 10
     /\ SubSeq(s, 5, 5) = "."
     /\ SubSeq(s, 8, 8) = "."
     /\ IsDigits(year) /\ IsDigits(month) /\ IsDigits(day)
     /\ ToNat(month) \in 1..12
     /\ ToNat(day) \in 1..DaysIn(ToNat(month), ToNat(year))

(***************************************************************************)
(* Properties.                                                             *)
(***************************************************************************)
\* The date and author strings of each metadata macro, as its file writes them.
OwnDate(n) ==
  CASE n = "_01__await_a_minute" -> "August 8, 2019"
    [] n = "_02__reference_types" -> "October 1, 2019"
    [] n = "_03__soundness_bugs" -> "December 9, 2019"
    [] n = "_04__triage_scale" -> "Feburary 20, 2020"

OwnRecord(n) ==
  << Group("brace", << Id("date"), P(":"), Lit(OwnDate(n)), P(","),
                       Id("author"), P(":"), Lit("David Tolnay"), P(",") >>) >>

MetadataMacros ==
  {"_01__await_a_minute", "_02__reference_types", "_03__soundness_bugs",
   "_04__triage_scale"}

\* C1: once the build has taken the invocation, it was accepted if and only
\* if its argument is exactly the braced record: date with the macro's own
\* date string, then author with its own author string, each followed by a
\* comma.  Every other argument was rejected.
C1_AcceptsExactlyOwnRecord ==
  dpc # "source" => (dpc # "rejected" <=> dinput = OwnRecord(dmacro))

\* C1 witness: the record without its trailing comma was rejected.
C1_RejectedWithoutTrailingComma ==
  /\ dpc = "rejected"
  /\ dmacro = "_01__await_a_minute"
  /\ dinput = << Group("brace", << Id("date"), P(":"), Lit("August 8, 2019"),
                                   P(","), Id("author"), P(":"),
                                   Lit("David Tolnay") >>) >>

\* C2: an accepted invocation expanded to no tokens, defined no item and
\* changed nothing else: no diagnostic, the crate's items as they were.
C2_ExpansionIsEmpty ==
  dpc \in {"expanded", "built", "ran"} =>
    /\ expansion = << <<>> >>
    /\ ditems = OwnItems
    /\ diag = <<>>

\* C2 witness: the fourth macro's own record was accepted and expanded.
C2_OwnRecordExpanded ==
  /\ dpc = "expanded"
  /\ dmacro = "_04__triage_scale"
  /\ dinput = OwnRecord("_04__triage_scale")
  /\ Len(expansion) = 1

\* C3: every essay loaded has a non-empty title and well-formed date
\* strings: the date its marker records and the date of its byline.
C3_TitleAndDateWellFormed ==
  \A k \in DOMAIN modules :
    LET f == EssayFiles[modules[k].essay] IN
    /\ Title(f) # ""
    /\ \A mac \in Markers(f) : WellFormedDate(FieldText(mac, "date"))
    /\ WellFormedByline(f.byline.date)

\* C4: a rejected invocation is a build error and nothing else: once the
\* diagnostic is emitted the build stays rejected, nothing was expanded,
\* no item was defined and nothing ever runs.
C4_RejectionIsBuildTimeOnly ==
  diag # <<>> =>
    /\ dpc = "rejected"
    /\ expansion = <<>>
    /\ ditems = OwnItems
    /\ druntime = <<>>

\* C4 witness: an invocation of the second macro with a foreign field added
\* was rejected.
C4_RejectedInvocation ==
  /\ dpc = "rejected"
  /\ dmacro = "_02__reference_types"
  /\ Len(diag) = 1
  /\ dinput # <<>>
  /\ dinput[1].kind = "group"
  /\ Id("title") \in {dinput[1].inner[k] : k \in DOMAIN dinput[1].inner}

\* The fields a marker records: <<name, kind of value, value is non-empty>>.
RecordedFields(mac) ==
  LET fs == FieldsOf(mac.rules[1].matcher[1].inner) IN
  [k \in DOMAIN fs |->
     <<fs[k].name, fs[k].colon, fs[k].value.kind, fs[k].value.text # "",
       fs[k].comma>>]

\* C5: every essay file loaded carries exactly one metadata marker, and the
\* marker records a date and then an author, both non-empty string literals.
C5_OneMarkerWithDateThenAuthor ==
  \A k \in DOMAIN modules :
    LET f == EssayFiles[modules[k].essay] IN
    /\ Cardinality(Markers(f)) = 1
    /\ Cardinality({d \in declared :
                      d.scope = CrateScope /\ d.kind = "macro_rules"}) = Len(modules)
    /\ \A mac \in Markers(f) :
         /\ Len(mac.rules) = 1
         /\ Len(mac.rules[1].matcher) = 1
         /\ mac.rules[1].matcher[1].kind = "group"
         /\ Len(mac.rules[1].matcher[1].inner) = 8
         /\ RecordedFields(mac) =
              << <<Id("date"), P(":"), "str", TRUE, P(",")>>,
                 <<Id("author"), P(":"), "str", TRUE, P(",")>> >>

\* C5 witness: the last essay file is loaded, marker and all.
C5_LastEssayLoaded ==
  /\ Len(modules) = Len(EssayFiles)
  /\ modules[Len(modules)].path = "2020-02-20-triage-scale.rs"
  /\ "_04__triage_scale" \in exported

\* C6: lib.rs only declares the aggregation.  Its items are doc, attributes
\* and module declarations; no two modules share a file; and when rustc is
\* through lib.rs there are exactly four modules, every essay file of the
\* repository is one module's file, and the crate holds nothing but the
\* modules and their macros.
C6_LibOnlyAggregates ==
  /\ \A k \in 1..(cursor - 1) :
       LibItems[k].kind \in {"inner_doc", "inner_attr", "mod"}
  /\ \A j, k \in DOMAIN modules : modules[j].path = modules[k].path => j = k
  /\ \A k \in DOMAIN modules : FileIndex(modules[k].path) # {}
  /\ cursor > Len(LibItems) =>
       /\ Len(modules) = 4
       /\ {modules[k].path : k \in DOMAIN modules}
            = {EssayFiles[i].path : i \in Essays}
       /\ {d \in declared : d.scope = CrateScope /\ d.kind = "mod"}
            = {[scope |-> CrateScope, kind |-> "mod", name |-> modules[k].name] :
                 k \in DOMAIN modules}
       /\ \A d \in declared :
            d.scope = CrateScope => d.kind \in {"mod", "macro_rules"}

\* C6 witness: rustc is through lib.rs and no doctest has started.
C6_LibProcessed ==
  /\ cursor = Len(LibItems) + 1
  /\ Len(modules) = 4
  /\ DOMAIN running = {}
  /\ DOMAIN finished = {}

\* C7: none of the four metadata macros is ever expanded, and building the
\* crate expands no macro at all (the doctests, programs of their own,
\* expand only macros of the standard library).
C7_MacrosNeverInvoked ==
  \A e \in expanded : e.name \notin MetadataMacros /\ e.scope # CrateScope

\* C7 witness: the crate is built with its four macros exported and every
\* doctest has run.
C7_EverythingBuilt ==
  /\ exported = MetadataMacros
  /\ queue = <<>>
  /\ DOMAIN running = {}
  /\ DOMAIN finished # {}
  /\ expanded # {}

\* C8 as stated: nothing the source declares is shared mutable state and no
\* statement of the source executes at run time, the code examples included.
C8_NoSharedStateNoRunTime ==
  /\ \A d \in declared : d.kind # "static"
  /\ executed = {}

\* C8 amended: the crate itself declares only modules and macros and
\* executes nothing; shared mutable state and run-time execution occur
\* only inside doctests.
C8_OnlyDoctestsDeclareStateOrRun ==
  /\ \A d \in declared :
       d.scope = CrateScope => d.kind \in {"mod", "macro_rules"}
  /\ \A d \in declared : d.kind = "static" => d.scope \in DOMAIN finished \cup DOMAIN running
  /\ \A x \in executed : x.scope \in DOMAIN finished

\* C8 witness: the example declaring COUNTER was compiled and the service
\* example made its calls.
C8_CounterDeclaredAndExampleRan ==
  /\ [scope |-> <<2, 109>>, kind |-> "static", name |-> "COUNTER"] \in declared
  /\ [scope |-> <<1, 228>>, call |-> "add_module", step |-> 3] \in executed

CallsOf(b) == SelectSeq(fcalls, LAMBDA c : c.binding = b)
FfiOf(b) == SelectSeq(ffiLog, LAMBDA c : c.binding = b)

\* C9: through the checked binding ffi::frob receives exactly the arguments
\* other than 10, in the order of the calls; a call with 10 panics before
\* the unsafe call and is the caller's last.
C9_CheckedNeverPassesTen ==
  /\ \A k \in DOMAIN ffiLog :
       ffiLog[k].binding = "checked" => ffiLog[k].arg # 10
  /\ [k \in DOMAIN FfiOf("checked") |-> FfiOf("checked")[k].arg]
       = [k \in DOMAIN SelectSeq(CallsOf("checked"), LAMBDA c : c.arg # 10) |->
            SelectSeq(CallsOf("checked"), LAMBDA c : c.arg # 10)[k].arg]
  /\ \A k \in DOMAIN fcalls :
       (fcalls[k].binding = "checked" /\ fcalls[k].arg = 10)
         => (fpc = "panicked" /\ k = Len(fcalls))

\* C9 witness: frob(10) through the checked binding panicked after an earlier
\* call went through.
C9_TenPanicked ==
  /\ fpc = "panicked"
  /\ Len(fcalls) = 2
  /\ fcalls[2] = [binding |-> "checked", level |-> "", arg |-> 10]
  /\ Len(ffiLog) = 1

\* C10: through the enum binding ffi::frob receives 0, 1, 2, 3 for Low,
\* Medium, High, Critical, for every call, never 10, and no call panics.
C10_EnumPassesDiscriminant ==
  /\ \A k \in DOMAIN ffiLog :
       ffiLog[k].binding = "enum" =>
         ffiLog[k].arg \in {0, 1, 2, 3} /\ ffiLog[k].arg # 10
  /\ [k \in DOMAIN FfiOf("enum") |-> FfiOf("enum")[k].arg]
       = [k \in DOMAIN CallsOf("enum") |->
            CASE CallsOf("enum")[k].level = "Low" -> 0
              [] CallsOf("enum")[k].level = "Medium" -> 1
              [] CallsOf("enum")[k].level = "High" -> 2
              [] CallsOf("enum")[k].level = "Critical" -> 3]
  /\ (fcalls # <<>> /\ fcalls[Len(fcalls)].binding = "enum") => fpc = "idle"

\* C10 witness: frob(Critical) reached ffi::frob with 3.
C10_CriticalPassedThree ==
  /\ Len(fcalls) = 2
  /\ fcalls[2].binding = "enum"
  /\ fcalls[2].level = "Critical"
  /\ ffiLog[Len(ffiLog)] = [binding |-> "enum", arg |-> 3]

\* C11: the binding marked UNSOUND hands every argument to ffi::frob, in the
\* order of the calls, with no check and no panic, so frob(10) from safe code
\* reaches ffi::frob(10); a caller that never passes 10 to it never makes the
\* violating call, and memory is stomped only after such a call.
C11_UnsoundForwardsEveryArgument ==
  /\ [k \in DOMAIN FfiOf("unsound") |-> FfiOf("unsound")[k].arg]
       = [k \in DOMAIN CallsOf("unsound") |-> CallsOf("unsound")[k].arg]
  /\ (fcalls # <<>> /\ fcalls[Len(fcalls)].binding = "unsound") => fpc = "idle"
  /\ (\A k \in DOMAIN fcalls :
        fcalls[k].binding = "unsound" => fcalls[k].arg # 10)
       => /\ \A k \in DOMAIN ffiLog : ffiLog[k].arg # 10
          /\ memory = "intact"

\* C11 witness: frob(10) through the unsound binding reached ffi::frob(10)
\* without a panic and the memory was stomped on.
C11_TenReachedFfi ==
  /\ fpc = "idle"
  /\ fcalls # <<>>
  /\ fcalls[Len(fcalls)] = [binding |-> "unsound", level |-> "", arg |-> 10]
  /\ ffiLog[Len(ffiLog)] = [binding |-> "unsound", arg |-> 10]
  /\ memory = "stomped"

\* C12: a poll_next on Start whose start future's poll returned an error
\* returns that error with next state Invalid and calls nothing else; a
\* poll_next on Invalid or on Done panics, calling nothing and returning no
\* result and no state; each poll is on the state the poll before it gave
\* back, and nothing is polled after a panic.
C12_ErrorThenInvalidThenPanic ==
  \A k \in DOMAIN polls :
    LET p == polls[k] IN
    /\ (p.from.tag = "Start" /\ p.calls # <<>> /\ p.calls[1].result.kind = "Err")
         => /\ p.result = p.calls[1].result
            /\ p.to = Invalid
            /\ Len(p.calls) = 1
    /\ p.from.tag \in {"Done", "Invalid"}
         => /\ p.result = Panicked
            /\ p.to = Moved
            /\ p.calls = <<>>
    /\ k > 1 => p.from = polls[k - 1].to
    /\ p.result = Panicked => (k = Len(polls) /\ estate = Moved)
    /\ p.from # Moved

\* C12 witness: the start future was not ready, then failed with e2; poll_next
\* returned e2 with Invalid, and the poll after that panicked.
C12_PolledAfterError ==
  /\ Len(polls) = 3
  /\ polls[1].result = NotReady
  /\ polls[2].from = Start("f1")
  /\ polls[2].result = Err("e2")
  /\ polls[2].to = Invalid
  /\ polls[3].from = Invalid
  /\ polls[3].result = Panicked
  /\ estate = Moved

\* C13: a poll_next on Start polls the start future first.  When it is not
\* ready the result is NotReady and the state given back is the state that
\* was passed, Start with the same future, and nothing else is called.
\* finish and poll_next_part are called only by a poll_next on Start whose
\* start future was Ready: finish, then, in the same call, poll_next_part,
\* whose result and state poll_next returns.
C13_StartKeptUntilReady ==
  \A k \in DOMAIN polls :
    LET p == polls[k] IN
    /\ p.from.tag = "Start"
         => /\ p.calls # <<>>
            /\ p.calls[1].fn = "poll"
            /\ p.calls[1].result = NotReady
                 => /\ p.result = NotReady
                    /\ p.to = p.from
                    /\ Len(p.calls) = 1
            /\ p.calls[1].result = Ready("")
                 => /\ Len(p.calls) >= 2
                    /\ p.calls[2].fn = "finish"
                    /\ p.calls[2].result # Panicked
                         => /\ Len(p.calls) = 3
                            /\ p.calls[3].fn = "poll_next_part"
                            /\ p.result = p.calls[3].result
                            /\ p.to = p.calls[3].state
    /\ \A i \in DOMAIN p.calls :
         p.calls[i].fn \in {"finish", "poll_next_part"}
           => /\ p.from.tag = "Start"
              /\ p.calls[1].result = Ready("")
              /\ i > 1

\* C13 witness: the start future f2 was not ready and the state stayed
\* Start(f2); at the next poll it was ready and poll_next went on through
\* finish to poll_next_part, which moved to Part.
C13_NotReadyThenReady ==
  /\ Len(polls) = 3
  /\ polls[2].from = Start("f2")
  /\ polls[2].result = NotReady
  /\ polls[2].to = Start("f2")
  /\ polls[3].from = Start("f2")
  /\ Len(polls[3].calls) = 3
  /\ polls[3].calls[3].fn = "poll_next_part"
  /\ polls[3].to = PartState

\* Both versions of the service set-up ran to their end.
SetupComplete ==
  /\ bpc \in {"done", "panicked"}
  /\ apc \in {"done", "panicked"}

\* The calls made are the first calls of SetupCalls, in that order, and every
\* call but the last one made succeeded.
InOrderUntilFailure(calls) ==
  /\ Len(calls) <= Len(SetupCalls)
  /\ calls = SubSeq(SetupCalls, 1, Len(calls))
  /\ \A k \in 1..(Len(calls) - 1) : oracle[calls[k]] = "Ok"

\* C14 as claimed: run to their end on the same outcomes of new, the three
\* add_module calls and serve, the two versions have made the same calls in
\* the same order and end in the same outcome.
C14_SameCallsSameOutcome ==
  SetupComplete => (bcalls = acalls /\ bresult = aresult)

\* C14 amended: both versions make the calls in the order new,
\* add_module(BuildModule), add_module(ThriftStatsModule),
\* add_module(ProfileModule), serve and make no call after the first that
\* failed; run to their end they have made the same calls, and end in the
\* same outcome unless new failed: then the combinator version panics in
\* unwrap() and the await version returns the error.
C14_SameUnlessNewFails ==
  /\ InOrderUntilFailure(bcalls)
  /\ InOrderUntilFailure(acalls)
  /\ SetupComplete =>
       /\ bcalls = acalls
       /\ oracle[bcalls[Len(bcalls)]] = "Ok" => Len(bcalls) = Len(SetupCalls)
       /\ IF oracle["new"] = "Err"
          THEN bresult = "Panic" /\ aresult = "Err"
          ELSE bresult = aresult /\ bresult = oracle[bcalls[Len(bcalls)]]

\* C14 witness: add_module(ThriftStatsModule) failed; both versions stopped
\* after three calls with the error.
C14_SecondModuleFailed ==
  /\ SetupComplete
  /\ oracle["add_module(ThriftStatsModule)"] = "Err"
  /\ Len(bcalls) = 3
  /\ Len(acalls) = 3
  /\ bresult = "Err"
  /\ aresult = "Err"

\* Both versions of handle_get_counters ran to their end.
HandlerComplete ==
  /\ cpc \in {"done", "panicked"}
  /\ wpc \in {"done", "panicked"}

\* The stages run, by name and in order.
StagesOf(ran) == [k \in DOMAIN ran |-> ran[k].stage]

\* The stages run are the first stages of HandlerStages, in that order, and
\* every stage before the last one run succeeded.
StagesInOrder(ran) ==
  /\ Len(ran) <= Len(HandlerStages)
  /\ StagesOf(ran) = SubSeq(HandlerStages, 1, Len(ran))
  /\ \A k \in 1..(Len(ran) - 1) : stages[ran[k].stage] = "Ok"

\* C15: both versions of handle_get_counters run decoding, get_counters and
\* write_message in that order and run no stage after one that failed;
\* write_message is run only once the get_counters future has resolved to
\* Ok; run to their end on the same stage outcomes, both have run the same
\* stages and resolve to the same result: the error of the stage that
\* failed, or the encoded reply.
C15_SameStagesSameResult ==
  /\ StagesInOrder(cran)
  /\ StagesInOrder(wran)
  /\ \A ran \in {cran, wran} :
       (\E k \in DOMAIN ran : ran[k].stage = "write_message")
         => stages["get_counters"] = "Ok"
  /\ HandlerComplete =>
       /\ StagesOf(cran) = StagesOf(wran)
       /\ cresult = wresult
       /\ LET last == cran[Len(cran)].stage IN
          /\ cresult = Resolved(last, stages[last])
          /\ stages[last] = "Ok" => last = "write_message"

\* C15 witness: decoding succeeded, the get_counters future was not ready at
\* first and then failed; both versions resolved to its error without
\* running write_message.
C15_GetCountersFailed ==
  /\ HandlerComplete
  /\ stages["get_counters"] = "Err"
  /\ cpolls = 1
  /\ wpolls = 1
  /\ Len(cran) = 2
  /\ Len(wran) = 2
  /\ cresult = "Err from get_counters"
  /\ wresult = "Err from get_counters"

====
